---- MODULE Spec2Model ----
\* A model of src/snake_game.py: the Snake and Food classes, reset_game and the
\* main game loop.  Positions are pixel coordinates <<x, y>>, as in the source;
\* directions are <<dx, dy>>.  The screen is scaled down from 40 x 30 blocks to
\* (2 * HalfGridW) x (2 * HalfGridH) blocks; like the source's it has an even
\* number of blocks in each dimension.
EXTENDS Integers, Sequences, FiniteSets

\* ------------------------------------------------------------------ bounds
HalfGridW == 2
HalfGridH == 1
MaxEvents == 2
MaxLength == 5
FoodMaxW == 2
FoodMaxH == 2

\* --------------------------------------------------------------- constants
SNAKE_BLOCK_SIZE == 20
FOOD_BLOCK_SIZE == 20
screen_width == 2 * HalfGridW * SNAKE_BLOCK_SIZE
screen_height == 2 * HalfGridH * SNAKE_BLOCK_SIZE

VARIABLES
  snake,            \* the Snake object: [length, positions, direction, score]
  food,             \* food.position
  game_active,
  game_over_state,
  running,
  pc,               \* where the main loop is: "active_events", "over_events", "quit"
  handled,          \* events of the current frame's pygame.event.get() handled so far
  last_move,        \* the direction the latest move() of the current snake used
  rp_width,         \* randomize_position, one call step by step: screen width
  rp_height,        \*   screen height
  rp_snake_positions, \* its argument (as a set: only membership is read)
  rp_position,      \*   self.position
  rp_pc             \*   "sampling" or "returned"

game_vars == <<snake, food, game_active, game_over_state, running, pc, handled, last_move>>
rp_vars == <<rp_width, rp_height, rp_snake_positions, rp_position, rp_pc>>
vars == <<snake, food, game_active, game_over_state, running, pc, handled, last_move,
          rp_width, rp_height, rp_snake_positions, rp_position, rp_pc>>

\* ------------------------------------------------------------------ events
UP == <<0, -1>>
DOWN == <<0, 1>>
LEFT == <<-1, 0>>
RIGHT == <<1, 0>>
Directions == {UP, DOWN, LEFT, RIGHT}
NoMove == <<0, 0>>
NoPosition == <<-1, -1>>

Event == {"QUIT", "K_UP", "K_DOWN", "K_LEFT", "K_RIGHT", "K_r", "K_q"}

\* ------------------------------------------------------------- class Snake
Snake(x, y) ==
  [length |-> 1, positions |-> << <<x, y>> >>, direction |-> RIGHT, score |-> 0]

get_head_position(self) == self.positions[1]

move_never_pops(self) ==
  LET cur == get_head_position(self)
      new_head == <<cur[1] + self.direction[1] * SNAKE_BLOCK_SIZE,
                    cur[2] + self.direction[2] * SNAKE_BLOCK_SIZE>>
  IN [self EXCEPT !.positions = <<new_head>> \o self.positions]

grow_inserts_cell(self) ==
  [self EXCEPT !.length = @ + 1, !.score = @ + 1,
               !.positions = Append(@, @[Len(@)])]

change_direction_unguarded(self, new_direction) ==
  [self EXCEPT !.direction = new_direction]

move_pops_early(self) ==
  LET cur == get_head_position(self)
      new_head == <<cur[1] + self.direction[1] * SNAKE_BLOCK_SIZE,
                    cur[2] + self.direction[2] * SNAKE_BLOCK_SIZE>>
      inserted == <<new_head>> \o self.positions
  IN [self EXCEPT !.positions =
        IF Len(inserted) >= self.length /\ Len(inserted) > 1
        THEN SubSeq(inserted, 1, Len(inserted) - 1)
        ELSE inserted]

move(self) ==
  LET cur == get_head_position(self)
      new_head == <<cur[1] + self.direction[1] * SNAKE_BLOCK_SIZE,
                    cur[2] + self.direction[2] * SNAKE_BLOCK_SIZE>>
      inserted == <<new_head>> \o self.positions
  IN [self EXCEPT !.positions =
        IF Len(inserted) > self.length
        THEN SubSeq(inserted, 1, Len(inserted) - 1)
        ELSE inserted]

grow_keeps_score(self) == [self EXCEPT !.length = @ + 1]

grow(self) == [self EXCEPT !.length = @ + 1, !.score = @ + 1]

check_collision_ignores_tail(self) ==
  \E i \in 2..(Len(self.positions) - 1) : self.positions[i] = get_head_position(self)

check_collision_with_self(self) ==
  \E i \in 2..Len(self.positions) : self.positions[i] = get_head_position(self)

change_direction(self, new_direction) ==
  IF <<new_direction[1] * (-1), new_direction[2] * (-1)>> = self.direction
  THEN self
  ELSE [self EXCEPT !.direction = new_direction]

\* -------------------------------------------------------------- class Food
\* The values random.randrange(0, extent // FOOD_BLOCK_SIZE) * FOOD_BLOCK_SIZE takes.
SampleCoords(extent) ==
  {i * FOOD_BLOCK_SIZE : i \in 0..((extent \div FOOD_BLOCK_SIZE) - 1)}

InPositions(p, positions) == \E i \in 1..Len(positions) : positions[i] = p

randomize_position_anywhere(snake_positions) ==
  SampleCoords(screen_width) \X SampleCoords(screen_height)

randomize_position_off_head_only(snake_positions) ==
  {p \in SampleCoords(screen_width) \X SampleCoords(screen_height) :
     p # snake_positions[1]}

\* The positions randomize_position can leave in self.position when it returns:
\* the samples on which the loop breaks.  Empty when every sample is on the
\* snake: then the call never returns.
randomize_position(snake_positions) ==
  {p \in SampleCoords(screen_width) \X SampleCoords(screen_height) :
     ~InPositions(p, snake_positions)}

\* Food(snake_positions): the constructor calls randomize_position.
Food(snake_positions) == randomize_position(snake_positions)

\* ---------------------------------------------------------------- the loop
in_screen_no_lower(head) ==
  head[1] < screen_width /\ head[2] < screen_height

in_screen_off_by_one(head) ==
  /\ 0 <= head[1] /\ head[1] <= screen_width
  /\ 0 <= head[2] /\ head[2] <= screen_height

in_screen(head) ==
  /\ 0 <= head[1] /\ head[1] < screen_width
  /\ 0 <= head[2] /\ head[2] < screen_height

start_x == (screen_width \div 2) - (SNAKE_BLOCK_SIZE \div 2)
start_y == (screen_height \div 2) - (SNAKE_BLOCK_SIZE \div 2)

reset_game_keeps_direction ==
  /\ snake' = [Snake(start_x, start_y) EXCEPT !.direction = snake.direction]
  /\ food' \in Food(Snake(start_x, start_y).positions)
  /\ game_active' = TRUE
  /\ game_over_state' = FALSE
  /\ last_move' = NoMove

\* reset_game: snake, food and the two flags (food is any position Food can take).
reset_game ==
  /\ snake' = Snake(start_x, start_y)
  /\ food' \in Food(Snake(start_x, start_y).positions)
  /\ game_active' = TRUE
  /\ game_over_state' = FALSE
  /\ last_move' = NoMove

\* while running: ... if game_active: ... else: ...
next_pc(run, active) ==
  IF ~run THEN "quit" ELSE IF active THEN "active_events" ELSE "over_events"

key_direction(event) ==
  IF event = "K_UP" THEN UP
  ELSE IF event = "K_DOWN" THEN DOWN
  ELSE IF event = "K_LEFT" THEN LEFT
  ELSE RIGHT

\* One iteration of the active branch's `for event in pygame.event.get()`.
ActiveEvent(event) ==
  /\ pc = "active_events"
  /\ handled < MaxEvents
  /\ handled' = handled + 1
  /\ running' = IF event = "QUIT" THEN FALSE ELSE running
  /\ snake' = IF event \in {"K_UP", "K_DOWN", "K_LEFT", "K_RIGHT"}
              THEN change_direction(snake, key_direction(event))
              ELSE snake
  /\ UNCHANGED <<food, game_active, game_over_state, pc, last_move>>
  /\ UNCHANGED rp_vars

\* The game logic of the active branch once the frame's events are handled
\* (move, the two game-over checks, eating), then the loop's next test.
GameLogic ==
  /\ pc = "active_events"
  /\ LET moved == move(snake)
         head == get_head_position(moved)
         active1 == in_screen(head)
         active2 == active1 /\ ~check_collision_with_self(moved)
         eats == active2 /\ head = food
     IN /\ game_active' = active2
        /\ game_over_state' = IF active2 THEN game_over_state ELSE TRUE
        /\ IF eats
           THEN /\ moved.length < MaxLength
                /\ snake' = grow(moved)
                /\ food' \in randomize_position(grow(moved).positions)
           ELSE /\ snake' = moved
                /\ food' = food
        /\ last_move' = snake.direction
        /\ pc' = next_pc(running, active2)
  /\ handled' = 0
  /\ UNCHANGED running
  /\ UNCHANGED rp_vars

OverEventSteers(event) ==
  /\ pc = "over_events"
  /\ handled < MaxEvents
  /\ handled' = handled + 1
  /\ running' = IF event \in {"QUIT", "K_q"} THEN FALSE ELSE running
  /\ IF event = "K_r"
     THEN reset_game
     ELSE /\ snake' = IF event \in {"K_UP", "K_DOWN", "K_LEFT", "K_RIGHT"}
                      THEN change_direction(snake, key_direction(event))
                      ELSE snake
          /\ UNCHANGED <<food, game_active, game_over_state, last_move>>
  /\ UNCHANGED pc
  /\ UNCHANGED rp_vars

\* One iteration of the game-over branch's `for event in pygame.event.get()`.
OverEvent(event) ==
  /\ pc = "over_events"
  /\ handled < MaxEvents
  /\ handled' = handled + 1
  /\ running' = IF event \in {"QUIT", "K_q"} THEN FALSE ELSE running
  /\ IF event = "K_r"
     THEN reset_game
     ELSE UNCHANGED <<snake, food, game_active, game_over_state, last_move>>
  /\ UNCHANGED pc
  /\ UNCHANGED rp_vars

\* The end of a game-over frame: display.flip, clock.tick, the loop's next test.
OverFrameEnd ==
  /\ pc = "over_events"
  /\ handled' = 0
  /\ pc' = next_pc(running, game_active)
  /\ UNCHANGED <<snake, food, game_active, game_over_state, running, last_move>>
  /\ UNCHANGED rp_vars

RpIdle ==
  /\ rp_width = FOOD_BLOCK_SIZE
  /\ rp_height = FOOD_BLOCK_SIZE
  /\ rp_snake_positions = {}
  /\ rp_position = NoPosition
  /\ rp_pc = "returned"

\* The state when the main loop is first entered: reset_game() has run once.
Init ==
  /\ snake = Snake(start_x, start_y)
  /\ food \in Food(Snake(start_x, start_y).positions)
  /\ game_active = TRUE
  /\ game_over_state = FALSE
  /\ running = TRUE
  /\ pc = "active_events"
  /\ handled = 0
  /\ last_move = NoMove
  /\ RpIdle

Next ==
  \/ \E event \in Event : ActiveEvent(event)
  \/ GameLogic
  \/ \E event \in Event : OverEvent(event)
  \/ OverFrameEnd

Spec == Init /\ [][Next]_vars

\* The same loop around a snake constructed on a block of the screen,
\* Snake(x, y) with x and y multiples of SNAKE_BLOCK_SIZE.
InitOnGrid ==
  /\ \E x \in SampleCoords(screen_width), y \in SampleCoords(screen_height) :
       /\ snake = Snake(x, y)
       /\ food \in Food(Snake(x, y).positions)
  /\ game_active = TRUE
  /\ game_over_state = FALSE
  /\ running = TRUE
  /\ pc = "active_events"
  /\ handled = 0
  /\ last_move = NoMove
  /\ RpIdle

SpecOnGrid == InitOnGrid /\ [][Next]_vars

\* The loop when pygame.event.get() returns at most one event per active frame.
ActiveEventOne(event) == handled = 0 /\ ActiveEvent(event)

NextOneInput ==
  \/ \E event \in Event : ActiveEventOne(event)
  \/ GameLogic
  \/ \E event \in Event : OverEvent(event)
  \/ OverFrameEnd

SpecOneInput == InitOnGrid /\ [][NextOneInput]_vars

\* ------------------------------------- randomize_position, step by step
\* The loop's exit test: `if self.position not in snake_positions: break`.
rp_break_inverted(position, snake_positions) == position \in snake_positions

rp_break(position, snake_positions) == position \notin snake_positions

\* One iteration of `while True`: sample x and y, assign self.position, test.
Sample ==
  /\ rp_pc = "sampling"
  /\ \E x \in SampleCoords(rp_width), y \in SampleCoords(rp_height) :
       /\ rp_position' = <<x, y>>
       /\ rp_pc' = IF rp_break(<<x, y>>, rp_snake_positions)
                   THEN "returned" ELSE "sampling"
  /\ UNCHANGED <<rp_width, rp_height, rp_snake_positions>>
  /\ UNCHANGED game_vars

\* A further call of randomize_position on the same Food, with other positions.
Call ==
  /\ rp_pc = "returned"
  /\ rp_snake_positions' \in
       SUBSET (SampleCoords(rp_width) \X SampleCoords(rp_height))
  /\ rp_snake_positions' # rp_snake_positions
  /\ rp_pc' = "sampling"
  /\ UNCHANGED <<rp_width, rp_height, rp_position>>
  /\ UNCHANGED game_vars

\* Food(snake_positions) on a screen of 1..FoodMaxW by 1..FoodMaxH blocks,
\* for every set of blocks as the snake's positions.
InitFood ==
  /\ rp_width \in {w * FOOD_BLOCK_SIZE : w \in 1..FoodMaxW}
  /\ rp_height \in {h * FOOD_BLOCK_SIZE : h \in 1..FoodMaxH}
  /\ rp_snake_positions \in
       SUBSET (SampleCoords(rp_width) \X SampleCoords(rp_height))
  /\ rp_position = NoPosition
  /\ rp_pc = "sampling"
  /\ snake = Snake(start_x, start_y)
  /\ food = <<0, 0>>
  /\ game_active = TRUE
  /\ game_over_state = FALSE
  /\ running = TRUE
  /\ pc = "active_events"
  /\ handled = 0
  /\ last_move = NoMove

NextFood == Sample \/ Call

SpecFood == InitFood /\ [][NextFood]_vars

\* ------------------------------------------------- vocabulary of the claims
GridW == 2 * HalfGridW
GridH == 2 * HalfGridH

\* Inside the playable grid [0, grid_width) x [0, grid_height), in pixels.
InsideGrid(p) ==
  /\ p[1] >= 0 /\ p[1] <= (GridW * SNAKE_BLOCK_SIZE) - 1
  /\ p[2] >= 0 /\ p[2] <= (GridH * SNAKE_BLOCK_SIZE) - 1

Opposite(d) ==
  IF d = UP THEN DOWN
  ELSE IF d = DOWN THEN UP
  ELSE IF d = LEFT THEN RIGHT
  ELSE IF d = RIGHT THEN LEFT
  ELSE d

HeadOnBody(positions) ==
  \E i \in 2..Len(positions) : positions[i] = positions[1]

\* A step of the main loop that is a tick: the game logic of an active frame.
TickStep == pc = "active_events" /\ handled' = 0

\* A step that handles one event of an active frame.
ActiveEventStep == pc = "active_events" /\ handled' = handled + 1

\* ------------------------------------------------------------------- C1
\* C1: on a tick whose head after move() is outside the grid, the session
\* becomes GameOver on that tick and score, length and food are unchanged.
C1_BoundaryDeath ==
  [][(TickStep /\ ~InsideGrid(snake'.positions[1]))
       => /\ ~game_active'
          /\ game_over_state'
          /\ snake'.score = snake.score
          /\ snake'.length = snake.length
          /\ food' = food]_vars

C1_Witness ==
  /\ ~game_active
  /\ game_over_state
  /\ ~InsideGrid(snake.positions[1])

\* ------------------------------------------------------------------- C2
\* C2: on a tick whose head after move() is inside the grid, the session
\* becomes GameOver iff the head equals an element of body[1:]; on such a
\* collision no food is consumed (score, length and food unchanged).
C2_SelfCollisionDeath ==
  [][(TickStep /\ InsideGrid(snake'.positions[1]))
       => /\ game_active' = ~HeadOnBody(snake'.positions)
          /\ HeadOnBody(snake'.positions)
               => /\ game_over_state'
                  /\ snake'.score = snake.score
                  /\ snake'.length = snake.length
                  /\ food' = food]_vars

C2_Witness ==
  /\ ~game_active
  /\ InsideGrid(snake.positions[1])
  /\ HeadOnBody(snake.positions)

\* ------------------------------------------------------------------- C3
\* C3: in GameOver every step other than the handling of a restart input
\* leaves snake (body, direction, length, score), food and the state
\* unchanged; the handling of a restart returns the session to Active; and
\* only a quit input ends the loop.
C3_GameOverFrozen ==
  [][~game_active
       => /\ ~OverEvent("K_r")
               => UNCHANGED <<snake, food, game_active, game_over_state>>
          /\ OverEvent("K_r") => (game_active' /\ ~game_over_state')
          /\ (~OverEvent("QUIT") /\ ~OverEvent("K_q")) => running' = running]_vars

C3_Witness ==
  /\ ~game_active
  /\ pc = "over_events"
  /\ handled = MaxEvents

\* ------------------------------------------------------------------- C4
\* The scenario's start cell, the centre cell (grid_width / 2, grid_height / 2)
\* ((20, 15) on the 40 x 30 grid), and the cell to the right of a cell.
ScenarioStart ==
  <<(GridW \div 2) * SNAKE_BLOCK_SIZE, (GridH \div 2) * SNAKE_BLOCK_SIZE>>

RightOf(p) == <<p[1] + SNAKE_BLOCK_SIZE, p[2]>>

\* C4: with the snake as created by reset (no move yet, no input) and the food
\* on the cell right of the start cell, the snake is on the start cell and
\* tick 1 moves the head onto the food and consumes it (score 1, length 2);
\* tick 2 with no input then makes the body the two cells right of the start.
C4_Scenario ==
  [][/\ (TickStep /\ handled = 0 /\ last_move = NoMove
           /\ food = RightOf(ScenarioStart))
        => /\ snake.positions = <<ScenarioStart>>
           /\ snake'.positions[1] = RightOf(ScenarioStart)
           /\ snake'.score = 1
           /\ snake'.length = 2
     /\ (TickStep /\ handled = 0 /\ last_move = RIGHT /\ snake.score = 1
           /\ snake.length = 2 /\ snake.positions = <<RightOf(ScenarioStart)>>)
        => snake'.positions =
             <<RightOf(RightOf(ScenarioStart)), RightOf(ScenarioStart)>>]_vars

\* In the program the score never leaves 0: no food cell is ever reached.
ScoreStaysZero == snake.score = 0 /\ snake.length = 1

\* ------------------------------------------------------------------- C5
RpCells ==
  {p \in (0..(rp_width - 1)) \X (0..(rp_height - 1)) :
     p[1] % FOOD_BLOCK_SIZE = 0 /\ p[2] % FOOD_BLOCK_SIZE = 0}

\* C5: when randomize_position has returned, the position is a cell of the
\* grid that is not one of the excluded cells; on a grid of two cells with
\* one excluded, it is the other cell.
C5_FoodExclusion ==
  rp_pc = "returned"
    => /\ rp_position \in RpCells
       /\ rp_position \notin rp_snake_positions
       /\ (Cardinality(RpCells) = 2 /\ Cardinality(rp_snake_positions) = 1)
            => RpCells = rp_snake_positions \cup {rp_position}

C5_Witness ==
  /\ rp_pc = "returned"
  /\ Cardinality(RpCells) = 2
  /\ Cardinality(rp_snake_positions) = 1
  /\ rp_position # NoPosition

\* ------------------------------------------------------------------- C6
DirectionKeys == {"K_UP", "K_DOWN", "K_LEFT", "K_RIGHT"}

\* C6: a change_direction(N) call leaves the direction D when N is the
\* opposite of D and sets it to N otherwise, and changes neither body,
\* length nor score.
C6_NoReversal ==
  [][\A event \in DirectionKeys :
       ActiveEvent(event)
         => /\ snake'.direction =
                 IF key_direction(event) = Opposite(snake.direction)
                 THEN snake.direction
                 ELSE key_direction(event)
            /\ snake'.positions = snake.positions
            /\ snake'.length = snake.length
            /\ snake'.score = snake.score]_vars

C6_Witness ==
  /\ pc = "active_events"
  /\ handled >= 1
  /\ snake.direction = LEFT

\* ------------------------------------------------------------------- C7
\* C7: the direction a tick's move() uses is never the opposite of the
\* direction the previous tick's move() used.
C7_NoTrajectoryReversal ==
  [][(TickStep /\ last_move # NoMove) => last_move' # Opposite(last_move)]_vars

\* ------------------------------------------------------------------- C8
\* A tick that consumes the food.
Consumption ==
  /\ TickStep
  /\ game_active'
  /\ snake'.positions[1] = food
  /\ snake'.length = snake.length + 1

\* C8: always 1 <= len(body) <= length; a tick that does not grow and starts
\* with len(body) = length ends with len(body) = length; and the length of a
\* snake changes only on a consumption (a restart replaces the snake).
C8_LengthInvariant ==
  /\ [](Len(snake.positions) >= 1 /\ Len(snake.positions) <= snake.length)
  /\ [][/\ (TickStep /\ snake'.length = snake.length
              /\ Len(snake.positions) = snake.length)
           => Len(snake'.positions) = snake'.length
        /\ snake'.length # snake.length => (Consumption \/ OverEvent("K_r"))]_vars

C8_Witness ==
  /\ game_active
  /\ handled = 0
  /\ snake.length = 2
  /\ Len(snake.positions) = 2

\* ------------------------------------------------------------------- C9
\* C9: a tick that starts with len(body) = length = L and whose head reaches
\* the food ends with length = L + 1 and len(body) = L; the following move()
\* prepends the head and removes no cell, so len(body) = L + 1.
C9_GrowthDeferral ==
  [][/\ (TickStep /\ Len(snake.positions) = snake.length
           /\ snake'.positions[1] = food)
        => /\ snake'.length = snake.length + 1
           /\ Len(snake'.positions) = snake.length
     /\ (TickStep /\ Len(snake.positions) + 1 = snake.length)
        => /\ Len(snake'.positions) = snake.length
           /\ SubSeq(snake'.positions, 2, Len(snake'.positions)) = snake.positions]_vars

C9_Witness ==
  /\ game_active
  /\ handled = 0
  /\ snake.score >= 1
  /\ snake.length = Len(snake.positions) + 1

\* ------------------------------------------------------------------ C10
\* C10: every cell of the body is a whole grid cell: its coordinates are
\* multiples of the cell size, the lattice the food positions are sampled on.
C10_OnFoodLattice ==
  \A i \in 1..Len(snake.positions) :
    /\ snake.positions[i][1] % FOOD_BLOCK_SIZE = 0
    /\ snake.positions[i][2] % FOOD_BLOCK_SIZE = 0

\* The other half of C10, which the code satisfies: each move() displaces the
\* head by exactly one block along exactly one axis.
SingleBlockSteps ==
  [][TickStep
       => LET old == snake.positions[1]
              new == snake'.positions[1]
          IN \/ (new[2] = old[2] /\ new[1] - old[1] \in {SNAKE_BLOCK_SIZE, -SNAKE_BLOCK_SIZE})
             \/ (new[1] = old[1] /\ new[2] - old[2] \in {SNAKE_BLOCK_SIZE, -SNAKE_BLOCK_SIZE})]_vars

\* ------------------------------------------------------------------ C11
\* The fresh session reset produces, up to the food's position.
FreshSnake ==
  [length |-> 1, positions |-> << <<start_x, start_y>> >>,
   direction |-> RIGHT, score |-> 0]

\* C11: every restart, from GameOver or (a second restart in the same frame)
\* from Active, whatever the snake was before, gives state Active, score 0,
\* length 1, the one start cell as body, direction Right, and a food cell in
\* the grid that is not in the new body; so a second restart gives the same
\* session as the first, up to the food.
C11_ResetIdempotence ==
  [][OverEvent("K_r")
       => /\ snake' = FreshSnake
          /\ game_active'
          /\ ~game_over_state'
          /\ InsideGrid(food')
          /\ ~InPositions(food', snake'.positions)]_vars

\* Restarts are handled from GameOver and from Active: this is violated.
RestartOnlyFromGameOver == [][OverEvent("K_r") => ~game_active]_vars

\* Two events of a game-over frame are handled and the session is fresh.
C11_Witness ==
  /\ pc = "over_events"
  /\ handled = 2
  /\ game_active
  /\ snake = FreshSnake
  /\ running

\* ------------------------------------------------------------------ C12
\* A tick in which a snake of length 1 moves from its cell A onto the food.
LengthOneConsumption ==
  /\ TickStep
  /\ snake.length = 1
  /\ snake'.positions[1] = food

C13_ScoreAccounting ==
  /\ [](snake.score >= 0 /\ snake.score = snake.length - 1)
  /\ [][/\ TickStep
             => IF game_active' /\ snake'.positions[1] = food
                THEN /\ snake'.score = snake.score + 1
                     /\ snake'.length = snake.length + 1
                     /\ food' # food
                     /\ ~InPositions(food', snake'.positions)
                ELSE /\ snake'.score = snake.score
                     /\ snake'.length = snake.length
                     /\ food' = food
        /\ snake'.score # snake.score => (TickStep \/ OverEvent("K_r"))
        /\ snake'.score < snake.score => OverEvent("K_r")]_vars

C13_Witness ==
  /\ snake.score = 2
  /\ snake.length = 3
  /\ game_active

\* ------------------------------------------------------------------ C14
\* C14: the move() of a tick yields a body whose head is the old head plus
\* one block in the direction, in or out of the screen, followed by the old
\* body in order, its last cell removed iff len(old body) + 1 > length;
\* move() changes neither direction, length nor score.
C14_MoveStep ==
  [][TickStep
       => LET old == snake.positions
              new == snake'.positions
              kept == IF Len(old) + 1 > snake.length THEN Len(old) - 1 ELSE Len(old)
          IN /\ new[1] = <<old[1][1] + snake.direction[1] * SNAKE_BLOCK_SIZE,
                           old[1][2] + snake.direction[2] * SNAKE_BLOCK_SIZE>>
             /\ Len(new) = kept + 1
             /\ \A i \in 1..kept : new[i + 1] = old[i]
             /\ snake'.direction = snake.direction
             /\ move(snake).length = snake.length
             /\ move(snake).score = snake.score
             /\ move(snake).positions = new]_vars

\* A move() has prepended a head without removing the tail cell.
C14_Witness ==
  /\ last_move # NoMove
  /\ Len(snake.positions) = 3
  /\ snake.length = 3
  /\ snake.score = 2

\* ------------------------------------------------------------------ C15
\* The direction before the frame's events: the one the previous move() used
\* (Right for a snake that has not moved yet).
PreTickDirection == IF last_move = NoMove THEN RIGHT ELSE last_move

\* C15: after each direction request of a frame (each may be the last before
\* the tick's move()), the direction is what that request alone would give
\* from the pre-tick direction; earlier requests of the frame do not count.
C15_LastWriterWins ==
  [][\A event \in DirectionKeys :
       ActiveEvent(event)
         => snake'.direction =
              IF key_direction(event) = Opposite(PreTickDirection)
              THEN PreTickDirection
              ELSE key_direction(event)]_vars

\* ------------------------------------------------------------------ C16
\* C16, the fail-fast half: no iteration of the sampling loop runs when the
\* excluded cells cover the whole grid (the call is rejected instead).
C16_FailFast ==
  [][Sample => ~(RpCells \subseteq rp_snake_positions)]_vars

\* randomize_position under fair sampling: a sample that stays possible is
\* eventually drawn.
SpecFoodFair ==
  /\ InitFood
  /\ [][NextFood]_vars
  /\ \A p \in SampleCoords(FoodMaxW * FOOD_BLOCK_SIZE)
                \X SampleCoords(FoodMaxH * FOOD_BLOCK_SIZE) :
       WF_vars(Sample /\ rp_position' = p)

\* C16, the termination half, which the code satisfies under SpecFoodFair:
\* with a cell left free the call returns.
TerminatesWhenFree ==
  (rp_pc = "sampling" /\ ~(RpCells \subseteq rp_snake_positions))
    ~> (rp_pc = "returned")

\* With every cell excluded the call never returns: this is violated.
AlwaysReturns == (rp_pc = "sampling") ~> (rp_pc = "returned")

\* ------------------------------------------------------------------ C17
\* C17: while the session is Active, the cells of the body are pairwise
\* distinct and all inside the grid.
C17_BodyWellFormed ==
  game_active
    => /\ \A i \in 1..Len(snake.positions) : InsideGrid(snake.positions[i])
       /\ \A i, j \in 1..Len(snake.positions) :
            i # j => snake.positions[i] # snake.positions[j]

C17_Witness ==
  /\ game_active
  /\ handled = 0
  /\ Len(snake.positions) = 4

\* ------------------------------------------------------------------ C18
\* C18: in every state, Active or GameOver, after reset and after any tick,
\* the food is inside the grid and on no cell of the snake's body.
C18_FoodOffSnake ==
  /\ InsideGrid(food)
  /\ ~InPositions(food, snake.positions)

\* GameOver by self-collision after two foods were eaten.
C18_Witness ==
  /\ ~game_active
  /\ snake.score >= 2
  /\ HeadOnBody(snake.positions)
  /\ InsideGrid(food)

====
